---- MODULE Spec2Model ----
(***************************************************************************)
(* State-machine model of scripts/performance_benchmark.py: the            *)
(* PerformanceBenchmark orchestrator (run_comprehensive_benchmark), its    *)
(* timed repetition loops (database, API), the cache benchmark, the load   *)
(* simulator with its session workers, and the resource sampler.           *)
(*                                                                         *)
(* Time is abstract: one successful measured call lasts one unit, a call   *)
(* that raises lasts less than the clock resolution (0 units).             *)
(***************************************************************************)
EXTENDS Integers, Sequences, FiniteSets, TLC

VARIABLES
    failing,          \* environment: operations that raise on every call
    flaky,            \* environment: operations that may raise on any call
    cancel_caught,    \* environment: CancelledError derives from Exception
    max_lag,          \* environment: longest extra delay of a sleep
    pc,               \* position inside run_comprehensive_benchmark
    started,          \* phases entered so far, in order
    completed,        \* phases returned so far, in order
    q,                \* index of the query / test of the current loop
    rep,              \* repetitions done for the current query / test
    durations,        \* local list `durations`
    success_count,    \* local `success_count`
    rows,             \* local `rows` of benchmark_database_performance
    results,          \* local dict `results` of the running category
    invocations,      \* calls received by each measured operation
    failures,         \* failures caught and printed, per operation
    db_results, api_results, cache_results, load_results,
    lvl,              \* index into concurrent_users
    tasks,            \* number of coroutines appended to `tasks`
    sessions,         \* the simulate_user_session coroutines of this level
    progress,         \* per level: sessions begun and sessions returned
    total_time,       \* local `total_time` of benchmark_load_performance
    elapsed,          \* time.time() - start_time inside collect_system_metrics
    metrics_history,  \* self.metrics_history
    read_errors,      \* "Error collecting metrics" messages of this call
    duration,         \* argument of collect_system_metrics
    run,              \* number of the current call of the sampler
    ticks,            \* passes of the sampler loop begun in this call
    cancelled,        \* the task running the sampler has been cancelled
    ticks_at_cancel,  \* value of ticks when the cancellation was requested
    report,           \* the report dict, once assembled
    saved,            \* save_benchmark_report has written the report
    bench_results,    \* self.results
    baseline_file,    \* benchmark_results/latest_baseline.json
    current_summary,  \* local of compare_with_baseline
    comparison,       \* local of compare_with_baseline, then of main
    metric_idx,       \* index into metrics_to_compare
    printed           \* what main has printed about the comparison

vars == <<failing, flaky, cancel_caught, max_lag, pc, started, completed, q, rep, durations,
          success_count, rows, results, invocations, failures,
          db_results, api_results, cache_results, load_results,
          lvl, tasks, sessions, progress, total_time, elapsed,
          metrics_history, read_errors, duration, run, ticks, cancelled,
          ticks_at_cancel, report, saved, bench_results, baseline_file,
          current_summary, comparison, metric_idx, printed>>

----------------------------------------------------------------------------
(* Bounds of the model *)

\* number of entries of `queries` that are benchmarked
NumQueries == 2
\* number of entries of `api_tests` that are benchmarked
NumApiTests == 2
\* number of load levels; level i runs i concurrent users
NumLevels == 2
\* largest number of operations that fail permanently in one run
MaxFailing == 1
\* largest number of operations that fail intermittently in one run
MaxFlaky == 1
\* largest `duration` a caller passes to collect_system_metrics
MaxDuration == 3
\* largest number of calls of the sampler on one object
MaxRuns == 2

\* most entries of self.results when compare_with_baseline is called
MaxResults == 2

(* Program constants *)

Repetitions == 10
NumCacheQueries == 2
NumActions == 5
SamplerDuration == 60
Unbound == -1

QueryNames ==
    <<"select_all_draws", "select_with_filters", "count_query",
      "complex_join", "index_test">>

Endpoints ==
    <<"/api/lottery/draws", "/api/lottery/draws",
      "/api/analysis/hot_numbers", "/api/analysis/cold_numbers">>

CacheNames == <<"cache_hit_test", "cache_miss_test">>

Actions ==
    <<"load_main_page", "fetch_lottery_data", "analyze_hot_numbers",
      "analyze_cold_numbers", "generate_prediction">>

Categories == <<"warmup", "database", "api", "cache", "load">>

QueryName(i) == IF i <= Len(QueryNames) THEN QueryNames[i] ELSE "query"
Endpoint(i) == IF i <= Len(Endpoints) THEN Endpoints[i] ELSE "/api/other"

\* concurrent_users, cut to NumLevels levels of 1, 2, ... users
Users(l) == l

\* readings of the clock for one cache query run
RunMs == {0, 1}

----------------------------------------------------------------------------
(* The environment: the operations the benchmark calls *)

Connect == <<"connect", 0>>
Metrics == <<"metrics", 0>>
DbOps == {<<"db", i>> : i \in 1..NumQueries}
ApiOps == {<<"api", i>> : i \in 1..NumApiTests}
CacheOps == {<<"cache", i>> : i \in 1..NumCacheQueries}
StepOps == {<<"step", i>> : i \in 1..NumActions}
MeasuredOps == DbOps \cup ApiOps \cup CacheOps \cup StepOps
Ops == MeasuredOps \cup {Connect, Metrics}

Outcomes(op) ==
    IF op \in failing THEN {FALSE}
    ELSE IF op \in flaky THEN BOOLEAN
    ELSE {TRUE}

\* number of rows query i returns
RowCount(i) == 10 * i

----------------------------------------------------------------------------
(* Helpers: dicts and statistics *)

EmptyDict == [k \in {} |-> 0]

Put(d, k, v) == [x \in (DOMAIN d) \cup {k} |-> IF x = k THEN v ELSE d[x]]

RECURSIVE SeqSum(_)
SeqSum(s) == IF s = <<>> THEN 0 ELSE Head(s) + SeqSum(Tail(s))

SeqMin(s) == CHOOSE x \in {s[i] : i \in 1..Len(s)} :
                 \A j \in 1..Len(s) : x <= s[j]

SeqMax(s) == CHOOSE x \in {s[i] : i \in 1..Len(s)} :
                 \A j \in 1..Len(s) : x >= s[j]

Mean(s) == SeqSum(s) \div Len(s)

RECURSIVE Insert(_, _)
Insert(x, s) ==
    IF s = <<>> THEN <<x>>
    ELSE IF x <= Head(s) THEN <<x>> \o s
    ELSE <<Head(s)>> \o Insert(x, Tail(s))

RECURSIVE Sorted(_)
Sorted(s) == IF s = <<>> THEN <<>> ELSE Insert(Head(s), Sorted(Tail(s)))

Median(s) ==
    LET t == Sorted(s)
        n == Len(s)
    IN  IF n % 2 = 1 THEN t[(n + 1) \div 2]
        ELSE (t[n \div 2] + t[n \div 2 + 1]) \div 2

RECURSIVE SumSq(_, _)
SumSq(s, m) ==
    IF s = <<>> THEN 0
    ELSE (Head(s) - m) * (Head(s) - m) + SumSq(Tail(s), m)

ISqrt(n) == CHOOSE r \in 0..n : r * r <= n /\ (r + 1) * (r + 1) > n

StDev(s) == ISqrt(SumSq(s, Mean(s)) \div (Len(s) - 1))

Bump(f, op) == [f EXCEPT ![op] = @ + 1]

----------------------------------------------------------------------------
(* run_comprehensive_benchmark: warm-up *)

loopVars == <<q, rep, durations, success_count, rows, results>>
envVars == <<failing, flaky, cancel_caught, max_lag>>
callVars == <<invocations, failures>>
categoryVars == <<db_results, api_results, cache_results, load_results>>
loadVars == <<lvl, tasks, sessions, progress, total_time>>
samplerVars == <<elapsed, metrics_history, read_errors, duration, run, ticks,
                 cancelled, ticks_at_cancel>>
reportVars == <<report, saved>>
mainVars == <<bench_results, baseline_file, current_summary, comparison,
              metric_idx, printed>>

\* the order of the awaits of run_comprehensive_benchmark
PhaseAfterSkipping(cat) ==
    CASE cat = "warmup" -> "db_begin"
      [] cat = "database" -> "cache_begin"
      [] cat = "api" -> "cache_begin"
      [] cat = "cache" -> "load_begin"
      [] cat = "load" -> "sampler_begin"
PhaseAfter(cat) ==
    CASE cat = "warmup" -> "db_begin"
      [] cat = "database" -> "api_begin"
      [] cat = "api" -> "cache_begin"
      [] cat = "cache" -> "load_begin"
      [] cat = "load" -> "sampler_begin"

\* warm_up_application catches every failure of its connection and queries
WarmUp ==
    /\ pc = "start"
    /\ started' = Append(started, "warmup")
    /\ completed' = Append(completed, "warmup")
    /\ pc' = PhaseAfter("warmup")
    /\ UNCHANGED <<envVars, loopVars, callVars, categoryVars, loadVars,
                   samplerVars, reportVars, mainVars>>

----------------------------------------------------------------------------
(* benchmark_database_performance *)

DbBegin ==
    /\ pc = "db_begin"
    /\ started' = Append(started, "database")
    /\ \E ok \in Outcomes(Connect) :
          IF ok
          THEN /\ pc' = "db_loop"
               /\ q' = 1
               /\ rep' = 0
               /\ durations' = <<>>
               /\ success_count' = 0
               /\ rows' = Unbound
               /\ results' = EmptyDict
          ELSE /\ pc' = "aborted"
               /\ UNCHANGED loopVars
    /\ UNCHANGED <<envVars, completed, callVars, categoryVars, loadVars,
                   samplerVars, reportVars, mainVars>>

\* the repetition counter after one pass of `for _ in range(10)`
RepAfterBreak(r, ok) == IF ok THEN r + 1 ELSE Repetitions
RepAfter(r, ok) == r + 1

\* the local `rows` after `rows = cursor.fetchall()` has fetched n rows
RowsAfterFirst(r, n) == IF r = Unbound THEN n ELSE r
RowsAfter(r, n) == n

\* one pass of the try block of a timed repetition loop
TimedCall(op) ==
    /\ rep < Repetitions
    /\ \E ok \in Outcomes(op) :
          /\ invocations' = Bump(invocations, op)
          /\ rep' = RepAfter(rep, ok)
          /\ IF ok
             THEN /\ durations' = Append(durations, 1)
                  /\ success_count' = success_count + 1
                  /\ rows' = IF op[1] = "db"
                             THEN RowsAfter(rows, RowCount(op[2]))
                             ELSE rows
                  /\ UNCHANGED failures
             ELSE /\ failures' = Bump(failures, op)
                  /\ UNCHANGED <<durations, success_count, rows>>

DbExecute ==
    /\ pc = "db_loop"
    /\ q <= NumQueries
    /\ TimedCall(<<"db", q>>)
    /\ UNCHANGED <<envVars, pc, started, completed, q, results, categoryVars,
                   loadVars, samplerVars, reportVars, mainVars>>

\* `if durations:` guards the entry of a query or endpoint
HasEntry(d) == d # <<>>

DbEntry(d, sc, r) ==
    [average_ms |-> Mean(d),
     median_ms |-> Median(d),
     min_ms |-> SeqMin(d),
     max_ms |-> SeqMax(d),
     std_dev_ms |-> IF Len(d) > 1 THEN StDev(d) ELSE 0,
     success_rate |-> (sc * 100) \div 10,
     rows_returned |-> IF r # Unbound THEN r ELSE 0]

DbRecord ==
    /\ pc = "db_loop"
    /\ q <= NumQueries
    /\ rep = Repetitions
    /\ results' = IF HasEntry(durations)
                  THEN Put(results, QueryName(q),
                           DbEntry(durations, success_count, rows))
                  ELSE results
    /\ q' = q + 1
    /\ rep' = 0
    /\ durations' = <<>>
    /\ success_count' = 0
    /\ UNCHANGED <<envVars, pc, started, completed, rows, callVars,
                   categoryVars, loadVars, samplerVars, reportVars, mainVars>>

DbReturn ==
    /\ pc = "db_loop"
    /\ q > NumQueries
    /\ db_results' = results
    /\ completed' = Append(completed, "database")
    /\ pc' = PhaseAfter("database")
    /\ UNCHANGED <<envVars, started, loopVars, callVars, api_results,
                   cache_results, load_results, loadVars, samplerVars,
                   reportVars, mainVars>>

----------------------------------------------------------------------------
(* benchmark_api_performance *)

ApiBegin ==
    /\ pc = "api_begin"
    /\ started' = Append(started, "api")
    /\ pc' = "api_loop"
    /\ q' = 1
    /\ rep' = 0
    /\ durations' = <<>>
    /\ success_count' = 0
    /\ results' = EmptyDict
    /\ UNCHANGED <<envVars, completed, rows, callVars, categoryVars,
                   loadVars, samplerVars, reportVars, mainVars>>

ApiCall ==
    /\ pc = "api_loop"
    /\ q <= NumApiTests
    /\ TimedCall(<<"api", q>>)
    /\ UNCHANGED <<envVars, pc, started, completed, q, results, categoryVars,
                   loadVars, samplerVars, reportVars, mainVars>>

ApiEntry(d, sc) ==
    [average_ms |-> Mean(d),
     median_ms |-> Median(d),
     min_ms |-> SeqMin(d),
     max_ms |-> SeqMax(d),
     success_rate |-> (sc * 100) \div 10]

ApiRecord ==
    /\ pc = "api_loop"
    /\ q <= NumApiTests
    /\ rep = Repetitions
    /\ results' = IF HasEntry(durations)
                  THEN Put(results, Endpoint(q),
                           ApiEntry(durations, success_count))
                  ELSE results
    /\ q' = q + 1
    /\ rep' = 0
    /\ durations' = <<>>
    /\ success_count' = 0
    /\ UNCHANGED <<envVars, pc, started, completed, rows, callVars,
                   categoryVars, loadVars, samplerVars, reportVars, mainVars>>

ApiReturn ==
    /\ pc = "api_loop"
    /\ q > NumApiTests
    /\ api_results' = results
    /\ completed' = Append(completed, "api")
    /\ pc' = PhaseAfter("api")
    /\ UNCHANGED <<envVars, started, loopVars, callVars, db_results,
                   cache_results, load_results, loadVars, samplerVars,
                   reportVars, mainVars>>

----------------------------------------------------------------------------
(* benchmark_cache_performance: the two executions of a query are not     *)
(* inside a try block, so a query that raises ends the whole run          *)

CacheBegin ==
    /\ pc = "cache_begin"
    /\ started' = Append(started, "cache")
    /\ \E ok \in Outcomes(Connect) :
          IF ok
          THEN /\ pc' = "cache_loop"
               /\ q' = 1
               /\ results' = EmptyDict
          ELSE /\ pc' = "aborted"
               /\ UNCHANGED <<q, results>>
    /\ UNCHANGED <<envVars, completed, rep, durations, success_count, rows,
                   callVars, categoryVars, loadVars, samplerVars, reportVars, mainVars>>

CacheEntry(first, second) ==
    [first_run_ms |-> first,
     second_run_ms |-> second,
     cache_effectiveness |->
         IF first > 0 THEN ((first - second) * 100) \div first ELSE 0]

CacheQuery ==
    /\ pc = "cache_loop"
    /\ q <= NumCacheQueries
    /\ \E ok1 \in Outcomes(<<"cache", q>>), ok2 \in Outcomes(<<"cache", q>>) :
          IF ~ok1
          THEN /\ invocations' = Bump(invocations, <<"cache", q>>)
               /\ pc' = "aborted"
               /\ UNCHANGED <<q, results>>
          ELSE IF ~ok2
          THEN /\ invocations' =
                     Bump(Bump(invocations, <<"cache", q>>), <<"cache", q>>)
               /\ pc' = "aborted"
               /\ UNCHANGED <<q, results>>
          ELSE /\ invocations' =
                     Bump(Bump(invocations, <<"cache", q>>), <<"cache", q>>)
               /\ \E first \in RunMs, second \in RunMs :
                     results' = Put(results, CacheNames[q],
                                    CacheEntry(first, second))
               /\ q' = q + 1
               /\ UNCHANGED pc
    /\ UNCHANGED <<envVars, started, completed, rep, durations, success_count,
                   rows, failures, categoryVars, loadVars, samplerVars,
                   reportVars, mainVars>>

CacheReturn ==
    /\ pc = "cache_loop"
    /\ q > NumCacheQueries
    /\ cache_results' = results
    /\ completed' = Append(completed, "cache")
    /\ pc' = PhaseAfter("cache")
    /\ UNCHANGED <<envVars, started, loopVars, callVars, db_results,
                   api_results, load_results, loadVars, samplerVars,
                   reportVars, mainVars>>

----------------------------------------------------------------------------
(* benchmark_load_performance and simulate_user_session *)

NewSession ==
    [state |-> "created", step |-> 0, calls |-> <<>>, errors |-> 0,
     slept |-> 0, result |-> [exc |-> FALSE, ms |-> 0]]

NoProgress == [l \in 1..NumLevels |-> [begun |-> 0, returned |-> 0]]

LoadBegin ==
    /\ pc = "load_begin"
    /\ started' = Append(started, "load")
    /\ lvl' = 1
    /\ tasks' = 0
    /\ sessions' = <<>>
    /\ results' = EmptyDict
    /\ pc' = "load_create"
    /\ UNCHANGED <<envVars, completed, q, rep, durations, success_count, rows,
                   callVars, categoryVars, progress, total_time, samplerVars,
                   reportVars, mainVars>>

\* `for _ in range(users)`: a coroutine object is made, it does not run yet
LoadCreate ==
    /\ pc = "load_create"
    /\ tasks < Users(lvl)
    /\ tasks' = tasks + 1
    /\ sessions' = Append(sessions, NewSession)
    /\ UNCHANGED <<envVars, pc, started, completed, loopVars, callVars,
                   categoryVars, lvl, progress, total_time, samplerVars,
                   reportVars, mainVars>>

\* asyncio.gather wraps every coroutine of `tasks` in a task and suspends
LoadGather ==
    /\ pc = "load_create"
    /\ tasks = Users(lvl)
    /\ pc' = "load_gather"
    /\ UNCHANGED <<envVars, started, completed, loopVars, callVars,
                   categoryVars, loadVars, samplerVars, reportVars, mainVars>>

\* a session coroutine runs only as a task of the awaited gather
CanRunEager(w) == pc \in {"load_create", "load_gather"}
CanRun(w) == pc = "load_gather"

\* one pass of `for action in actions` (with the return after the last one)
StepEffectRaise(s, ok) ==
    LET n == s.step + 1
        t == [s EXCEPT !.step = n,
                       !.calls = Append(@, Actions[n]),
                       !.slept = IF ok THEN @ + 1 ELSE @,
                       !.errors = IF ok THEN @ ELSE @ + 1,
                       !.state = "running"]
    IN  IF ~ok
        THEN [t EXCEPT !.state = "done",
                       !.result = [exc |-> TRUE, ms |-> 0]]
        ELSE IF n = NumActions
        THEN [t EXCEPT !.state = "done",
                       !.result = [exc |-> FALSE, ms |-> t.slept]]
        ELSE t
StepEffect(s, ok) ==
    LET n == s.step + 1
        t == [s EXCEPT !.step = n,
                       !.calls = Append(@, Actions[n]),
                       !.slept = IF ok THEN @ + 1 ELSE @,
                       !.errors = IF ok THEN @ ELSE @ + 1,
                       !.state = "running"]
    IN  IF n = NumActions
        THEN [t EXCEPT !.state = "done",
                       !.result = [exc |-> FALSE, ms |-> t.slept]]
        ELSE t

SessionStep(w) ==
    /\ w \in 1..Len(sessions)
    /\ CanRun(w)
    /\ sessions[w].state # "done"
    /\ \E ok \in Outcomes(<<"step", sessions[w].step + 1>>) :
          LET t == StepEffect(sessions[w], ok)
          IN  /\ sessions' = [sessions EXCEPT ![w] = t]
              /\ progress' =
                   [progress EXCEPT
                      ![lvl].begun =
                          IF sessions[w].state = "created" THEN @ + 1 ELSE @,
                      ![lvl].returned =
                          IF t.state = "done" THEN @ + 1 ELSE @]
    /\ UNCHANGED <<envVars, pc, started, completed, loopVars, callVars,
                   categoryVars, lvl, tasks, total_time, samplerVars,
                   reportVars, mainVars>>

\* `await asyncio.gather(*tasks, return_exceptions=True)` resumes
JoinReadyAny == \E w \in 1..Len(sessions) : sessions[w].state = "done"
JoinReady == \A w \in 1..Len(sessions) : sessions[w].state = "done"

\* readings of (time.perf_counter() - start_time) * 1000 for a level whose
\* longest session slept m units
TotalTimes(m) == IF m = 0 THEN {0, 1} ELSE {m}

IsValue(r) == ~r.exc

SessionResults == [w \in 1..Len(sessions) |-> sessions[w].result]

\* successful_sessions: the results of gather that are not exceptions
SuccessfulSessionsRaised(sr) == Cardinality({w \in 1..Len(sr) : sr[w].exc})
SuccessfulSessions(sr) == Cardinality({w \in 1..Len(sr) : ~sr[w].exc})

SessionTimes(sr) ==
    LET vals == SelectSeq(sr, IsValue)
    IN  [i \in 1..Len(vals) |-> vals[i].ms]

LoadEntry(total, sr, users) ==
    [total_time_ms |-> total,
     successful_sessions |-> SuccessfulSessions(sr),
     success_rate |-> (SuccessfulSessions(sr) * 100) \div users,
     average_session_time_ms |->
         IF SessionTimes(sr) # <<>> THEN Mean(SessionTimes(sr)) ELSE 0,
     throughput_sessions_per_second |->
         (SuccessfulSessions(sr) * 1000) \div total]

\* dividing by total_time = 0 raises ZeroDivisionError out of the run
LoadJoin ==
    /\ pc = "load_gather"
    /\ JoinReady
    /\ \E total \in TotalTimes(SeqMax([w \in 1..Len(sessions) |->
                                          sessions[w].slept])) :
          /\ total_time' = total
          /\ IF total = 0
             THEN /\ pc' = "aborted"
                  /\ UNCHANGED results
             ELSE /\ results' = Put(results, Users(lvl),
                                    LoadEntry(total, SessionResults,
                                              Users(lvl)))
                  /\ pc' = "load_next"
    /\ UNCHANGED <<envVars, started, completed, q, rep, durations,
                   success_count, rows, callVars, categoryVars, lvl, tasks,
                   sessions, progress, samplerVars, reportVars, mainVars>>

LoadNext ==
    /\ pc = "load_next"
    /\ lvl < NumLevels
    /\ lvl' = lvl + 1
    /\ tasks' = 0
    /\ sessions' = <<>>
    /\ pc' = "load_create"
    /\ UNCHANGED <<envVars, started, completed, loopVars, callVars,
                   categoryVars, progress, total_time, samplerVars,
                   reportVars, mainVars>>

LoadReturn ==
    /\ pc = "load_next"
    /\ lvl = NumLevels
    /\ load_results' = results
    /\ completed' = Append(completed, "load")
    /\ pc' = PhaseAfter("load")
    /\ UNCHANGED <<envVars, started, loopVars, callVars, db_results,
                   api_results, cache_results, loadVars, samplerVars,
                   reportVars, mainVars>>

----------------------------------------------------------------------------
(* collect_system_metrics(duration) *)

\* the values psutil reads in one pass
Reading == [cpu_percent |-> 50, memory_percent |-> 50, memory_mb |-> 100]

Snapshot(t, r) ==
    [timestamp |-> t, run |-> r, cpu_percent |-> Reading.cpu_percent,
     memory_percent |-> Reading.memory_percent,
     memory_mb |-> Reading.memory_mb]

SamplerBegin ==
    /\ pc = "sampler_begin"
    /\ elapsed' = 0
    /\ ticks' = 0
    /\ read_errors' = 0
    /\ pc' = "sampler_loop"
    /\ UNCHANGED <<envVars, started, completed, loopVars, callVars,
                   categoryVars, loadVars, metrics_history, duration, run,
                   cancelled, ticks_at_cancel, reportVars, mainVars>>

\* `while time.time() - start_time < duration`
LoopOnceMore(e, d) == e <= d
LoopCond(e, d) == e < d

\* self.metrics_history after a pass whose read succeeded or raised
ReadEffectAlways(h, ok, snap) == Append(h, snap)
ReadEffect(h, ok, snap) == IF ok THEN Append(h, snap) ELSE h

\* where a pass goes after its read: the sleep of the try block, or the
\* sleep of the except block
AfterReadAbort(ok) == IF ok THEN "sampler_sleep" ELSE "aborted"
AfterRead(ok) == IF ok THEN "sampler_sleep" ELSE "sampler_sleep_handler"

SamplerTick ==
    /\ pc = "sampler_loop"
    /\ LoopCond(elapsed, duration)
    /\ ticks' = ticks + 1
    /\ \E ok \in Outcomes(Metrics) :
          /\ metrics_history' =
                ReadEffect(metrics_history, ok, Snapshot(elapsed, run))
          /\ read_errors' = IF ok THEN read_errors ELSE read_errors + 1
          /\ pc' = AfterRead(ok)
    /\ UNCHANGED <<envVars, started, completed, loopVars, callVars,
                   categoryVars, loadVars, elapsed, duration, run, cancelled,
                   ticks_at_cancel, reportVars, mainVars>>

SleepPcs == {"sampler_sleep", "sampler_sleep_handler"}

SamplerPcs == {"sampler_begin", "sampler_loop"} \cup SleepPcs

\* `await asyncio.sleep(1)` returns after one interval, or a little later
SamplerWake ==
    /\ pc \in SleepPcs
    /\ \E lag \in 0..max_lag : elapsed' = elapsed + 1 + lag
    /\ pc' = "sampler_loop"
    /\ UNCHANGED <<envVars, started, completed, loopVars, callVars,
                   categoryVars, loadVars, metrics_history, read_errors,
                   duration, run, ticks, cancelled, ticks_at_cancel,
                   reportVars, mainVars>>

\* the task that runs the sampler is cancelled while it sleeps:
\* CancelledError is raised at the await. Raised at the sleep of the try
\* block it meets `except Exception`, which catches it where CancelledError
\* derives from Exception; elsewhere it ends the sampler.
Cancel ==
    /\ pc \in SleepPcs
    /\ ~cancelled
    /\ cancelled' = TRUE
    /\ ticks_at_cancel' = ticks
    /\ IF pc = "sampler_sleep" /\ cancel_caught
       THEN /\ read_errors' = read_errors + 1
            /\ pc' = "sampler_sleep_handler"
       ELSE /\ pc' = "cancelled"
            /\ UNCHANGED read_errors
    /\ UNCHANGED <<envVars, started, completed, loopVars, callVars,
                   categoryVars, loadVars, elapsed, metrics_history, duration,
                   run, ticks, reportVars, mainVars>>

SamplerEnd ==
    /\ pc = "sampler_loop"
    /\ ~LoopCond(elapsed, duration)
    /\ pc' = "report"
    /\ UNCHANGED <<envVars, started, completed, loopVars, callVars,
                   categoryVars, loadVars, samplerVars, reportVars, mainVars>>

\* the caller calls collect_system_metrics again on the same object
SamplerAgain ==
    /\ pc = "report"
    /\ run < MaxRuns
    /\ run' = run + 1
    /\ cancelled' = FALSE
    /\ elapsed' = 0
    /\ ticks' = 0
    /\ read_errors' = 0
    /\ pc' = "sampler_begin"
    /\ UNCHANGED <<envVars, started, completed, loopVars, callVars,
                   categoryVars, loadVars, metrics_history, duration,
                   ticks_at_cancel, reportVars, mainVars>>

----------------------------------------------------------------------------
(* generate_summary *)

\* dict.get(key, default)
Get(d, k, default) == IF k \in DOMAIN d THEN d[k] ELSE default

Succeeded(r) == r.success

\* [r.duration_ms for r in self.results if r.success]
AllDurations(res) ==
    LET ok == SelectSeq(res, Succeeded)
    IN  [i \in 1..Len(ok) |-> ok[i].duration_ms]

\* [m.cpu_percent for m in self.metrics_history], and the like
CpuValues(hist) == [i \in 1..Len(hist) |-> hist[i].cpu_percent]
MemoryValues(hist) == [i \in 1..Len(hist) |-> hist[i].memory_percent]
MemoryMbValues(hist) == [i \in 1..Len(hist) |-> hist[i].memory_mb]

\* the summary of self.results (res) and self.metrics_history (hist);
\* success_rate is held in percent
GenerateSummary(res, hist) ==
    IF res = <<>>
    THEN EmptyDict
    ELSE LET all_durations == AllDurations(res)
             measured == all_durations # <<>>
             summary ==
                [total_tests |-> Len(res),
                 successful_tests |-> Len(all_durations),
                 failed_tests |-> Len(res) - Len(all_durations),
                 success_rate |-> (Len(all_durations) * 100) \div Len(res),
                 average_response_time_ms |->
                    IF measured THEN Mean(all_durations) ELSE 0,
                 median_response_time_ms |->
                    IF measured THEN Median(all_durations) ELSE 0,
                 max_response_time_ms |->
                    IF measured THEN SeqMax(all_durations) ELSE 0,
                 min_response_time_ms |->
                    IF measured THEN SeqMin(all_durations) ELSE 0]
         IN  IF hist # <<>>
             THEN summary @@
                  [average_cpu_percent |-> Mean(CpuValues(hist)),
                   max_cpu_percent |-> SeqMax(CpuValues(hist)),
                   average_memory_percent |-> Mean(MemoryValues(hist)),
                   max_memory_percent |-> SeqMax(MemoryValues(hist)),
                   peak_memory_mb |-> SeqMax(MemoryMbValues(hist))]
             ELSE summary

----------------------------------------------------------------------------
(* generate_recommendations *)

\* statistics.mean raises StatisticsError for an empty list: the list of
\* the successful durations is not guarded, only `if self.results:` is
RecommendationsRaise(res) == res # <<>> /\ AllDurations(res) = <<>>

ResponseRecommendations(res) ==
    IF res = <<>>
    THEN <<>>
    ELSE LET avg_response == Mean(AllDurations(res))
         IN  (IF avg_response > 500
              THEN <<"High average response time detected">>
              ELSE <<>>)
             \o (IF avg_response > 1000
                 THEN <<"Very high response times">>
                 ELSE <<>>)

MemoryRecommendations(hist) ==
    IF hist = <<>>
    THEN <<>>
    ELSE LET avg_memory == Mean(MemoryValues(hist))
             max_memory == SeqMax(MemoryValues(hist))
         IN  (IF avg_memory > 70 THEN <<"High memory usage">> ELSE <<>>)
             \o (IF max_memory > 90
                 THEN <<"Critical memory usage">>
                 ELSE <<>>)

GeneralRecommendations ==
    <<"Implement comprehensive monitoring and alerting",
      "Regular performance testing and regression detection",
      "Database query optimization and indexing review",
      "API response compression and caching strategies",
      "Frontend code splitting and lazy loading">>

\* the list returned when nothing is raised
GenerateRecommendations(res, hist) ==
    ResponseRecommendations(res) \o MemoryRecommendations(hist)
    \o GeneralRecommendations

----------------------------------------------------------------------------
(* run_comprehensive_benchmark: report, save, charts, return *)

NoReport == EmptyDict

\* the report dict is built with the summary and the recommendations; an
\* exception of generate_recommendations leaves run_comprehensive_benchmark
AssembleReport ==
    /\ pc = "report"
    /\ IF RecommendationsRaise(bench_results)
       THEN /\ pc' = "aborted"
            /\ UNCHANGED report
       ELSE /\ report' =
                  [database_performance |-> db_results,
                   api_performance |-> api_results,
                   cache_performance |-> cache_results,
                   load_performance |-> load_results,
                   system_metrics |-> metrics_history,
                   summary |-> GenerateSummary(bench_results, metrics_history),
                   recommendations |->
                      GenerateRecommendations(bench_results, metrics_history)]
            /\ pc' = "save"
    /\ UNCHANGED <<envVars, started, completed, loopVars, callVars,
                   categoryVars, loadVars, samplerVars, saved, mainVars>>

SaveReport ==
    /\ pc = "save"
    /\ saved' = TRUE
    /\ pc' = "charts"
    /\ UNCHANGED <<envVars, started, completed, loopVars, callVars,
                   categoryVars, loadVars, samplerVars, report, mainVars>>

\* generate_performance_charts catches its own failures
Finish ==
    /\ pc = "charts"
    /\ pc' = "done"
    /\ UNCHANGED <<envVars, started, completed, loopVars, callVars,
                   categoryVars, loadVars, samplerVars, reportVars, mainVars>>

----------------------------------------------------------------------------
(* compare_with_baseline and the end of main *)

MetricsToCompare ==
    <<"average_response_time_ms", "success_rate", "average_cpu_percent",
      "average_memory_percent">>

\* the metrics a regression is reported for
HigherIsWorse ==
    {"average_response_time_ms", "average_cpu_percent",
     "average_memory_percent"}

\* benchmark_results/latest_baseline.json: it may not exist, it may exist
\* and fail to open or to parse, or it holds a report with a summary
AbsentBaseline == [exists |-> FALSE, readable |-> FALSE, summary |-> EmptyDict]
UnreadableBaseline ==
    [exists |-> TRUE, readable |-> FALSE, summary |-> EmptyDict]

NoComparison == EmptyDict
NothingPrinted == EmptyDict

\* `{"error": str(e)}`
ErrorDict == [error |-> "exception"]

\* `if baseline_file.exists():`
BaselineAlways(f) == TRUE
BaselineExists(f) == f.exists

MainBaseline ==
    /\ pc = "main_baseline"
    /\ pc' = IF BaselineExists(baseline_file) THEN "compare_open"
                                              ELSE "main_done"
    /\ UNCHANGED <<envVars, started, completed, loopVars, callVars,
                   categoryVars, loadVars, samplerVars, reportVars,
                   mainVars>>

\* open and json.load, then generate_summary and the empty comparison
CompareOpen ==
    /\ pc = "compare_open"
    /\ IF baseline_file.exists /\ baseline_file.readable
       THEN /\ current_summary' =
                  GenerateSummary(bench_results, metrics_history)
            /\ comparison' = [performance_changes |-> EmptyDict,
                              regressions_detected |-> <<>>,
                              improvements_detected |-> <<>>]
            /\ metric_idx' = 1
            /\ pc' = "compare_loop"
       ELSE /\ pc' = "compare_except"
            /\ UNCHANGED <<current_summary, comparison, metric_idx>>
    /\ UNCHANGED <<envVars, started, completed, loopVars, callVars,
                   categoryVars, loadVars, samplerVars, reportVars,
                   bench_results, baseline_file, printed>>

\* `if baseline_value > 0:`
HasBaselineOrZero(b) == b >= 0
HasBaseline(b) == b > 0

\* ((current_value - baseline_value) / baseline_value) * 100
ChangePercent(c, b) == ((c - b) * 100) \div b

\* "high" if change_percent > 50 else "medium"
SeverityFrom(cp) == IF cp >= 50 THEN "high" ELSE "medium"
Severity(cp) == IF cp > 50 THEN "high" ELSE "medium"

IsRegression(metric, cp) == cp > 10 /\ metric \in HigherIsWorse

IsImprovement(metric, cp) ==
    /\ cp < -10
    /\ \/ metric \in {"average_response_time_ms"}
       \/ (metric = "success_rate" /\ cp < -10)

Abs(x) == IF x < 0 THEN -x ELSE x

\* the comparison after the pass of the loop for a metric whose baseline
\* value b passed the guard
Compared(cmp, metric, c, b) ==
    LET change_percent == ChangePercent(c, b)
    IN  [cmp EXCEPT
           !.performance_changes =
              Put(@, metric, [baseline |-> b, current |-> c,
                              change_percent |-> change_percent]),
           !.regressions_detected =
              IF IsRegression(metric, change_percent)
              THEN Append(@, [metric |-> metric,
                              severity |-> Severity(change_percent),
                              change_percent |-> change_percent])
              ELSE @,
           !.improvements_detected =
              IF IsImprovement(metric, change_percent)
              THEN Append(@, [metric |-> metric,
                              improvement_percent |-> Abs(change_percent)])
              ELSE @]

\* one pass of `for metric in metrics_to_compare`; a division by zero
\* raises ZeroDivisionError inside the try block
CompareMetric ==
    /\ pc = "compare_loop"
    /\ metric_idx <= Len(MetricsToCompare)
    /\ LET metric == MetricsToCompare[metric_idx]
           current_value == Get(current_summary, metric, 0)
           baseline_value == Get(baseline_file.summary, metric, 0)
       IN  IF HasBaseline(baseline_value)
           THEN IF baseline_value = 0
                THEN /\ pc' = "compare_except"
                     /\ UNCHANGED <<comparison, metric_idx>>
                ELSE /\ comparison' = Compared(comparison, metric,
                                               current_value, baseline_value)
                     /\ metric_idx' = metric_idx + 1
                     /\ pc' = pc
           ELSE /\ metric_idx' = metric_idx + 1
                /\ UNCHANGED <<comparison, pc>>
    /\ UNCHANGED <<envVars, started, completed, loopVars, callVars,
                   categoryVars, loadVars, samplerVars, reportVars,
                   bench_results, baseline_file, current_summary, printed>>

\* `return comparison`
CompareReturn ==
    /\ pc = "compare_loop"
    /\ metric_idx > Len(MetricsToCompare)
    /\ pc' = "main_print"
    /\ UNCHANGED <<envVars, started, completed, loopVars, callVars,
                   categoryVars, loadVars, samplerVars, reportVars,
                   mainVars>>

\* `except Exception as e:` prints and returns the error dict
CompareExcept ==
    /\ pc = "compare_except"
    /\ comparison' = ErrorDict
    /\ pc' = "main_print"
    /\ UNCHANGED <<envVars, started, completed, loopVars, callVars,
                   categoryVars, loadVars, samplerVars, reportVars,
                   bench_results, baseline_file, current_summary,
                   metric_idx, printed>>

\* main reads the two lists of the comparison and prints them
MainPrint ==
    /\ pc = "main_print"
    /\ printed' =
          [regressions |-> Get(comparison, "regressions_detected", <<>>),
           improvements |-> Get(comparison, "improvements_detected", <<>>)]
    /\ pc' = "main_done"
    /\ UNCHANGED <<envVars, started, completed, loopVars, callVars,
                   categoryVars, loadVars, samplerVars, reportVars,
                   bench_results, baseline_file, current_summary, comparison,
                   metric_idx>>

----------------------------------------------------------------------------
(* Specifications *)

FreshLocals ==
    /\ q = 0
    /\ rep = 0
    /\ durations = <<>>
    /\ success_count = 0
    /\ rows = Unbound
    /\ results = EmptyDict
    /\ invocations = [op \in MeasuredOps |-> 0]
    /\ failures = [op \in MeasuredOps |-> 0]
    /\ db_results = EmptyDict
    /\ api_results = EmptyDict
    /\ cache_results = EmptyDict
    /\ load_results = EmptyDict
    /\ lvl = 0
    /\ tasks = 0
    /\ sessions = <<>>
    /\ progress = NoProgress
    /\ total_time = Unbound
    /\ elapsed = 0
    /\ read_errors = 0
    /\ run = 1
    /\ ticks = 0
    /\ cancelled = FALSE
    /\ ticks_at_cancel = 0
    /\ report = NoReport
    /\ saved = FALSE
    /\ current_summary = EmptyDict
    /\ comparison = NoComparison
    /\ metric_idx = 0
    /\ printed = NothingPrinted

\* the object as __init__ leaves it, and no baseline file on disk
Fresh ==
    /\ FreshLocals
    /\ bench_results = <<>>
    /\ metrics_history = <<>>
    /\ baseline_file = AbsentBaseline

\* a whole run; up to MaxFailing operations fail on every call
Init ==
    /\ failing \in {S \in SUBSET Ops : Cardinality(S) <= MaxFailing}
    /\ flaky = {}
    /\ cancel_caught = FALSE
    /\ max_lag = 0
    /\ duration = SamplerDuration
    /\ pc = "start"
    /\ started = <<>>
    /\ completed = <<>>
    /\ Fresh

Next ==
    \/ WarmUp
    \/ DbBegin \/ DbExecute \/ DbRecord \/ DbReturn
    \/ ApiBegin \/ ApiCall \/ ApiRecord \/ ApiReturn
    \/ CacheBegin \/ CacheQuery \/ CacheReturn
    \/ LoadBegin \/ LoadCreate \/ LoadGather
    \/ (\E w \in 1..NumLevels : SessionStep(w))
    \/ LoadJoin \/ LoadNext \/ LoadReturn
    \/ SamplerBegin \/ SamplerTick \/ SamplerWake \/ SamplerEnd
    \/ AssembleReport \/ SaveReport \/ Finish

Spec == Init /\ [][Next]_vars

\* the two timed repetition categories, entered after the warm-up; up to
\* MaxFlaky queries or endpoints fail on some of their calls
InitRep ==
    /\ failing = {}
    /\ flaky \in {S \in SUBSET (DbOps \cup ApiOps) : Cardinality(S) <= MaxFlaky}
    /\ cancel_caught = FALSE
    /\ max_lag = 0
    /\ duration = SamplerDuration
    /\ pc = "db_begin"
    /\ started = <<"warmup">>
    /\ completed = <<"warmup">>
    /\ Fresh

NextRep ==
    \/ DbBegin \/ DbExecute \/ DbRecord \/ DbReturn
    \/ ApiBegin \/ ApiCall \/ ApiRecord \/ ApiReturn

SpecRep == InitRep /\ [][NextRep]_vars

\* the load category, entered after the cache category; any set of session
\* steps fails on every call, or up to MaxFlaky steps fail on some calls
InitLoad ==
    /\ \/ /\ failing \in SUBSET StepOps
          /\ flaky = {}
       \/ /\ failing = {}
          /\ flaky \in {S \in SUBSET StepOps : Cardinality(S) <= MaxFlaky}
    /\ cancel_caught = FALSE
    /\ max_lag = 0
    /\ duration = SamplerDuration
    /\ pc = "load_begin"
    /\ started = <<"warmup", "database", "api", "cache">>
    /\ completed = <<"warmup", "database", "api", "cache">>
    /\ Fresh

NextLoad ==
    \/ LoadBegin \/ LoadCreate \/ LoadGather
    \/ (\E w \in 1..NumLevels : SessionStep(w))
    \/ LoadJoin \/ LoadNext \/ LoadReturn

SpecLoad == InitLoad /\ [][NextLoad]_vars

\* collect_system_metrics called on its own, run as a task that its caller
\* may cancel, for any duration up to MaxDuration, with reads that succeed,
\* always raise, or raise on some passes
InitSampler ==
    /\ \/ failing = {} /\ flaky = {}
       \/ failing = {Metrics} /\ flaky = {}
       \/ failing = {} /\ flaky = {Metrics}
    /\ cancel_caught \in BOOLEAN
    /\ max_lag \in {0, 1}
    /\ duration \in 1..MaxDuration
    /\ pc = "sampler_begin"
    /\ started = Categories
    /\ completed = Categories
    /\ Fresh

SamplerRuns == SamplerBegin \/ SamplerTick \/ SamplerWake \/ SamplerEnd

NextSampler == SamplerRuns \/ Cancel \/ SamplerAgain

\* the event loop resumes the sampler whenever it can take a step
SpecSampler == InitSampler /\ [][NextSampler]_vars /\ WF_vars(SamplerRuns)

\* the entries self.results may hold
ResultDurations == {80, 150, 160}
Results == [duration_ms : ResultDurations, success : BOOLEAN]

RECURSIVE SeqsUpTo(_, _)
SeqsUpTo(S, n) ==
    IF n = 0
    THEN {<<>>}
    ELSE LET shorter == SeqsUpTo(S, n - 1)
         IN  shorter \cup {Append(t, x) : t \in shorter, x \in S}

\* the values a baseline summary may hold for a metric
BaselineValues(metric) ==
    CASE metric = "average_response_time_ms" -> {0, 100}
      [] metric = "success_rate" -> {0, 50, 100}
      [] metric = "average_cpu_percent" -> {0, 40}
      [] metric = "average_memory_percent" -> {0, 50}

MetricNames == {MetricsToCompare[i] : i \in 1..Len(MetricsToCompare)}

BaselineSummaries ==
    UNION {{f \in [D -> UNION {BaselineValues(k) : k \in D}] :
                \A k \in D : f[k] \in BaselineValues(k)} :
              D \in SUBSET MetricNames}

\* main after run_comprehensive_benchmark has returned: the object holds
\* some results and snapshots, and the baseline file is in some condition
InitCompare ==
    /\ failing = {}
    /\ flaky = {}
    /\ cancel_caught = FALSE
    /\ max_lag = 0
    /\ duration = SamplerDuration
    /\ pc = "main_baseline"
    /\ started = Categories
    /\ completed = Categories
    /\ FreshLocals
    /\ bench_results \in SeqsUpTo(Results, MaxResults)
    /\ metrics_history \in {<<>>, <<Snapshot(0, 1)>>}
    /\ \/ baseline_file \in {AbsentBaseline, UnreadableBaseline}
       \/ \E bs \in BaselineSummaries :
             baseline_file = [exists |-> TRUE, readable |-> TRUE,
                              summary |-> bs]

NextCompare ==
    \/ MainBaseline
    \/ CompareOpen
    \/ CompareMetric
    \/ CompareReturn
    \/ CompareExcept
    \/ MainPrint

SpecCompare == InitCompare /\ [][NextCompare]_vars

\* the durations and the memory readings the recommendations tell apart
RecommendDurations == {80, 600, 1200}
RecommendResults == [duration_ms : RecommendDurations, success : BOOLEAN]
MemoryReadings == {50, 80, 95}

\* run_comprehensive_benchmark at the point where it builds the report, on
\* an object that holds some results and snapshots
InitRecommend ==
    /\ failing = {}
    /\ flaky = {}
    /\ cancel_caught = FALSE
    /\ max_lag = 0
    /\ duration = SamplerDuration
    /\ pc = "report"
    /\ started = Categories
    /\ completed = Categories
    /\ FreshLocals
    /\ bench_results \in SeqsUpTo(RecommendResults, MaxResults)
    /\ \/ metrics_history = <<>>
       \/ \E mem \in MemoryReadings :
             metrics_history =
                <<[Snapshot(0, 1) EXCEPT !.memory_percent = mem]>>
    /\ baseline_file = AbsentBaseline

NextRecommend == AssembleReport \/ SaveReport \/ Finish

SpecRecommend == InitRecommend /\ [][NextRecommend]_vars

----------------------------------------------------------------------------
(* Properties *)

SamplerTicks == Len(metrics_history) + read_errors

InCategory == Len(started) > Len(completed)

LoadPcs == {"load_create", "load_gather", "load_next"}

AfterLoadPcs ==
    SamplerPcs \cup {"report", "save", "charts", "done"}

\* the dict of load level results as far as it has been built
LoadDict == IF pc \in LoadPcs THEN results ELSE load_results

\* C1: the sampler runs concurrently with the categories: by the time the
\* load category has returned, the sampler has ticked at least once.
C1_SamplerTicksBeforeLoadEnds ==
    Len(completed) = Len(Categories) => SamplerTicks >= 1

\* the second half of C1 fails as well: no tick of the sampler ever falls
\* inside a category (holds under Spec)
SamplerOnlyBetweenCategories == SamplerTicks > 0 => ~InCategory

\* C2: whatever set of measured operations (queries, endpoints, cache
\* queries, session steps) fails, the run is not aborted: it goes on to
\* assemble and save the report.
C2_MeasuredFailureNeverAborts ==
    failing \subseteq MeasuredOps => pc # "aborted"

\* C3: once the loop over a query (or endpoint) whose 10 runs all raised is
\* over, the category result holds an entry for it with success rate 0 and
\* all duration statistics 0.
C3_AllFailedEntryRecorded ==
    /\ \A i \in 1..NumQueries :
          (pc = "db_loop" /\ q > i /\ failures[<<"db", i>>] = Repetitions)
          => /\ QueryName(i) \in DOMAIN results
             /\ results[QueryName(i)].success_rate = 0
             /\ results[QueryName(i)].average_ms = 0
             /\ results[QueryName(i)].median_ms = 0
             /\ results[QueryName(i)].min_ms = 0
             /\ results[QueryName(i)].max_ms = 0
             /\ results[QueryName(i)].std_dev_ms = 0
    /\ \A i \in 1..NumApiTests :
          (pc = "api_loop" /\ q = i + 1 /\ failures[<<"api", i>>] = Repetitions)
          => /\ Endpoint(i) \in DOMAIN results
             /\ results[Endpoint(i)].success_rate = 0
             /\ results[Endpoint(i)].average_ms = 0
             /\ results[Endpoint(i)].median_ms = 0
             /\ results[Endpoint(i)].min_ms = 0
             /\ results[Endpoint(i)].max_ms = 0

\* C4: load levels run one after another behind a barrier: no session of
\* level l+1 begins, and level l has no measured result, before all Users(l)
\* sessions of level l have returned; the sampler and the report come only
\* after the sessions of the last level have all returned.
C4_LevelsBehindBarrier ==
    /\ \A l \in 1..(NumLevels - 1) :
          progress[l + 1].begun > 0 => progress[l].returned = Users(l)
    /\ \A l \in 1..NumLevels :
          Users(l) \in DOMAIN LoadDict => progress[l].returned = Users(l)
    /\ \A l \in 1..NumLevels :
          (lvl = l /\ pc = "load_next") => progress[l].returned = Users(l)
    /\ (pc \in AfterLoadPcs \/ report # NoReport \/ SamplerTicks > 0)
          => \A l \in 1..NumLevels : progress[l].returned = Users(l)

\* a session of level 2 is running, level 1 is measured
C4_Witness ==
    /\ pc = "load_gather"
    /\ lvl = 2
    /\ progress[2].begun > 0
    /\ Users(1) \in DOMAIN results

\* C5: the successful_sessions of a level counts exactly the sessions all of
\* whose steps succeeded.
C5_SuccessIffAllStepsSucceeded ==
    pc = "load_next"
    => results[Users(lvl)].successful_sessions =
          Cardinality({w \in 1..Len(sessions) : sessions[w].errors = 0})

\* C6: a session invokes the pipeline steps in pipeline order, each once,
\* whatever steps fail, and it returns a duration, never an exception.
C6_EveryStepOnceInOrder ==
    \A w \in 1..Len(sessions) :
       /\ sessions[w].calls = SubSeq(Actions, 1, Len(sessions[w].calls))
       /\ sessions[w].state = "done"
          => /\ sessions[w].calls = Actions
             /\ ~sessions[w].result.exc
             /\ sessions[w].result.ms >= 0

\* a session that returned although some of its steps raised
C6_Witness ==
    \E w \in 1..Len(sessions) :
       /\ sessions[w].state = "done"
       /\ sessions[w].errors >= 1
       /\ sessions[w].slept >= 1

\* C7: the k sessions of a level are all created and handed to gather
\* before any of them runs, so none is run to completion before the others
\* exist.
C7_AllStartedBeforeAnyAwaited ==
    \A w \in 1..Len(sessions) :
       sessions[w].state # "created"
       => /\ tasks = Users(lvl)
          /\ Len(sessions) = Users(lvl)

\* two sessions of one level are both in the middle of their pipelines
C7_Witness ==
    \E v, w \in 1..Len(sessions) :
       /\ v # w
       /\ sessions[v].state = "running"
       /\ sessions[w].state = "running"
       /\ sessions[v].step \in 1..(NumActions - 1)
       /\ sessions[w].step \in 1..(NumActions - 1)

\* C8: the repetition loop calls each operation exactly Repetitions times,
\* one call per pass; a call that raises is counted as a failure and the
\* loop goes on, so successes + failures = passes done, and = Repetitions
\* when the loop is over.
C8_ExactlyRepetitionsCalls ==
    /\ pc # "aborted"
    /\ rep <= Repetitions
    /\ (pc = "db_loop" /\ q <= NumQueries)
          => /\ invocations[<<"db", q>>] = rep
             /\ success_count + failures[<<"db", q>>] = rep
    /\ (pc = "api_loop" /\ q <= NumApiTests)
          => /\ invocations[<<"api", q>>] = rep
             /\ success_count + failures[<<"api", q>>] = rep
    /\ \A i \in 1..NumQueries :
          ((pc = "db_loop" /\ q > i) \/ pc \in {"api_begin", "api_loop", "cache_begin"})
          => /\ invocations[<<"db", i>>] = Repetitions
             /\ failures[<<"db", i>>] <= Repetitions
             /\ failures[<<"db", i>>] < Repetitions
                => LET d == IF pc = "db_loop" THEN results ELSE db_results
                   IN  /\ QueryName(i) \in DOMAIN d
                       /\ d[QueryName(i)].success_rate =
                             ((Repetitions - failures[<<"db", i>>]) * 100) \div 10
    /\ \A i \in 1..NumApiTests :
          ((pc = "api_loop" /\ q > i) \/ pc = "cache_begin")
          => /\ invocations[<<"api", i>>] = Repetitions
             /\ failures[<<"api", i>>] <= Repetitions

\* all passes over a query were made although some of its calls raised
C8_Witness ==
    /\ pc = "db_loop"
    /\ q <= NumQueries
    /\ rep = Repetitions
    /\ failures[<<"db", q>>] >= 1
    /\ success_count >= 1

\* C9: the phases run in the order warm-up, database, API, cache, load: a
\* phase starts only when the one before it has returned, none runs twice,
\* none is passed over, and a run that gets to the sampler has run all five.
C9_PhasesInFixedOrder ==
    /\ Len(started) <= Len(Categories)
    /\ started = SubSeq(Categories, 1, Len(started))
    /\ completed = SubSeq(Categories, 1, Len(completed))
    /\ Len(completed) <= Len(started)
    /\ Len(started) <= Len(completed) + 1
    /\ pc \in AfterLoadPcs => completed = Categories

\* the run is over and the five phases have run
C9_Witness ==
    /\ pc = "done"
    /\ started = Categories
    /\ completed = Categories

\* C10: a level whose measured total wall time is 0 reports throughput 0
\* and the run does not fail on a division by zero.
C10_ZeroWallTimeZeroThroughput ==
    total_time = 0
    => /\ pc # "aborted"
       /\ Users(lvl) \in DOMAIN LoadDict
       /\ LoadDict[Users(lvl)].throughput_sessions_per_second = 0

\* snapshots appended by the current call of the sampler
RunSnapshots ==
    Cardinality({i \in 1..Len(metrics_history) : metrics_history[i].run = run})

\* C11: once the cancellation of the sampler has been requested, the
\* sampler begins no further pass: it ends before its next tick.
C11_NoTickAfterCancel ==
    cancelled => ticks = ticks_at_cancel

\* C12: the sampler is bounded by its duration: no pass begins once the
\* elapsed time has reached the duration, so a call makes at most
\* `duration` passes and appends at most as many snapshots, each stamped
\* before the duration; and a running sampler eventually ends.
C12_SamplerBoundedByDuration ==
    /\ [](/\ ticks <= duration
          /\ RunSnapshots <= ticks
          /\ \A i \in 1..Len(metrics_history) :
                metrics_history[i].run = run
                => metrics_history[i].timestamp < duration)
    /\ ((pc \in SamplerPcs) ~> (pc \notin SamplerPcs))

\* the sampler returned after as many passes as fit in the duration
C12_Witness ==
    /\ pc = "report"
    /\ ticks = duration
    /\ duration >= 2
    /\ RunSnapshots = ticks

\* C13: a pass whose read raises appends no snapshot, prints the error and
\* goes on to sleep one interval; whatever reads fail, the sampler is not
\* aborted and its snapshots are the passes whose read succeeded.
C13_FailedReadSkipsSnapshot ==
    /\ pc # "aborted"
    /\ ~cancelled => RunSnapshots + read_errors = ticks
    /\ Metrics \in failing => metrics_history = <<>>
    /\ (Metrics \notin failing \cup flaky /\ ~cancelled) => read_errors = 0

\* the sampler returned, some of its reads raised and some succeeded
C13_Witness ==
    /\ pc = "report"
    /\ ~cancelled
    /\ read_errors >= 1
    /\ RunSnapshots >= 1
    /\ RunSnapshots + read_errors = ticks

\* C14: the snapshots held after a call of the sampler are those of that
\* call only, never those of an earlier call on the same object.
C14_OnlySnapshotsOfThisCall ==
    \A i \in 1..Len(metrics_history) : metrics_history[i].run = run

\* the sum of a count kept per measured operation
TotalOf(f) ==
    LET RECURSIVE Total(_)
        Total(S) == IF S = {} THEN 0
                    ELSE LET op == CHOOSE x \in S : TRUE
                         IN  f[op] + Total(S \ {op})
    IN  Total(DOMAIN f)

\* C15: the summary of the report rolls up every measured execution of
\* the run: its totals are the numbers of executed and of successful
\* measured operations, so it is not empty once something was measured.
C15_SummaryRollsUpExecutions ==
    (report # NoReport /\ TotalOf(invocations) > 0)
    => /\ report.summary # EmptyDict
       /\ Get(report.summary, "total_tests", 0) = TotalOf(invocations)
       /\ Get(report.summary, "successful_tests", 0) =
             TotalOf(invocations) - TotalOf(failures)

\* compare_with_baseline has returned to main
Compared_pcs == {"main_print", "main_done"}

ReadableBaseline == baseline_file.exists /\ baseline_file.readable

Listed(list, metric) == \E i \in 1..Len(list) : list[i].metric = metric

BaselineOf(metric) == Get(baseline_file.summary, metric, 0)
CurrentOf(metric) == Get(current_summary, metric, 0)

\* C16: a compared metric whose baseline value is 0 is left out of
\* performance_changes and of both lists, and no division by zero is
\* raised; for a baseline value above 0 the recorded change_percent is
\* (current - baseline) / baseline * 100.
C16_ZeroBaselineOmitted ==
    (pc \in Compared_pcs /\ ReadableBaseline)
    => /\ comparison # ErrorDict
       /\ \A metric \in MetricNames :
             LET b == BaselineOf(metric)
                 c == CurrentOf(metric)
                 changes == comparison.performance_changes
             IN  /\ b = 0
                    => /\ metric \notin DOMAIN changes
                       /\ ~Listed(comparison.regressions_detected, metric)
                       /\ ~Listed(comparison.improvements_detected, metric)
                 /\ b > 0
                    => /\ metric \in DOMAIN changes
                       /\ changes[metric].baseline = b
                       /\ changes[metric].current = c
                       /\ changes[metric].change_percent * b = (c - b) * 100

\* a comparison with a metric of baseline 0 and a metric that changed
C16_Witness ==
    /\ pc = "main_done"
    /\ ReadableBaseline
    /\ "success_rate" \in DOMAIN baseline_file.summary
    /\ BaselineOf("success_rate") = 0
    /\ CurrentOf("success_rate") = 100
    /\ "success_rate" \notin DOMAIN comparison.performance_changes
    /\ "average_response_time_ms" \in DOMAIN comparison.performance_changes
    /\ comparison.performance_changes["average_response_time_ms"]
          .change_percent = 60

\* C17: a metric is listed as a regression exactly when it is one of the
\* higher-is-worse metrics, its baseline is above 0 and it rose by more
\* than 10 percent; the severity is high above 50 percent and medium
\* otherwise (100 -> 150 is medium, 100 -> 160 is high); success_rate is
\* never a regression.
C17_RegressionIffWorseByTenPercent ==
    (pc \in Compared_pcs /\ ReadableBaseline)
    => LET regressions == comparison.regressions_detected
       IN  /\ \A metric \in MetricNames :
                 LET b == BaselineOf(metric)
                     c == CurrentOf(metric)
                 IN  Listed(regressions, metric)
                     <=> /\ metric \in HigherIsWorse
                         /\ b > 0
                         /\ (c - b) * 100 > 10 * b
           /\ \A i \in 1..Len(regressions) :
                 LET b == BaselineOf(regressions[i].metric)
                     c == CurrentOf(regressions[i].metric)
                 IN  /\ regressions[i].severity \in {"high", "medium"}
                     /\ regressions[i].severity = "high"
                        <=> (c - b) * 100 > 50 * b
                     /\ (b = 100 /\ c = 150)
                        => regressions[i].severity = "medium"
                     /\ (b = 100 /\ c = 160)
                        => regressions[i].severity = "high"
           /\ ~Listed(regressions, "success_rate")

\* the response time went from 100 to 150 (medium), the CPU from 40 to 50
\* (medium), and the success rate rose from 50 to 100 percent
C17_Witness ==
    /\ pc = "main_done"
    /\ BaselineOf("average_response_time_ms") = 100
    /\ CurrentOf("average_response_time_ms") = 150
    /\ BaselineOf("success_rate") = 50
    /\ CurrentOf("success_rate") = 100
    /\ Len(comparison.regressions_detected) = 2
    /\ comparison.regressions_detected[1] =
          [metric |-> "average_response_time_ms", severity |-> "medium",
           change_percent |-> 50]
    /\ comparison.regressions_detected[2].metric = "average_cpu_percent"

\* C18: a change is computed only for a metric present in both the
\* baseline summary and the current summary; a metric missing from the
\* current summary is neither entered in performance_changes nor listed.
C18_OnlyMetricsInBothSummaries ==
    (pc \in Compared_pcs /\ ReadableBaseline)
    => \A metric \in MetricNames :
          metric \notin DOMAIN current_summary
          => /\ metric \notin DOMAIN comparison.performance_changes
             /\ ~Listed(comparison.regressions_detected, metric)
             /\ ~Listed(comparison.improvements_detected, metric)

\* C19: improvements follow the polarity of the metric, also for metrics
\* present in both summaries: the average response time is listed only
\* when it fell by more than 10 percent, and success_rate is never listed
\* when it fell.
C19_ImprovementsFollowPolarity ==
    (pc \in Compared_pcs /\ ReadableBaseline)
    => LET improvements == comparison.improvements_detected
       IN  /\ Listed(improvements, "average_response_time_ms")
              => (CurrentOf("average_response_time_ms")
                     - BaselineOf("average_response_time_ms")) * 100
                 < -10 * BaselineOf("average_response_time_ms")
           /\ ("success_rate" \in DOMAIN current_summary
               /\ CurrentOf("success_rate") < BaselineOf("success_rate"))
              => ~Listed(improvements, "success_rate")

\* C20: with no baseline file main calls no comparison, prints no
\* regression and no improvement, and goes to its end; for a baseline
\* file that cannot be read compare_with_baseline returns the error dict
\* to main, which prints nothing and goes to its end.
C20_AbsentBaselineSkipsComparison ==
    /\ pc \in {"main_baseline", "compare_open", "compare_loop",
               "compare_except", "main_print", "main_done"}
    /\ ~baseline_file.exists
       => /\ pc \in {"main_baseline", "main_done"}
          /\ comparison = NoComparison
          /\ printed = NothingPrinted
    /\ (baseline_file.exists /\ ~baseline_file.readable)
       => /\ pc \in Compared_pcs => comparison = ErrorDict
          /\ pc = "main_done"
             => printed = [regressions |-> <<>>, improvements |-> <<>>]

\* main has ended without a baseline file and without a comparison
C20_Witness ==
    /\ pc = "main_done"
    /\ ~baseline_file.exists
    /\ comparison = NoComparison
    /\ bench_results # <<>>

\* the levels whose entry has been written so far
LevelsRecorded ==
    CASE pc \in {"load_create", "load_gather", "aborted"} -> lvl - 1
      [] pc = "load_next" -> lvl
      [] OTHER -> 0

\* C21: the load category writes one entry per concurrency level, level
\* after level in the configured order, and returns one entry for every
\* level; when no step of any session fails it does return, and the entry
\* of each level k has successful_sessions = k and success_rate = 1.0.
C21_OneResultPerLevelInOrder ==
    /\ pc \in LoadPcs
       => DOMAIN results = {Users(l) : l \in 1..LevelsRecorded}
    /\ (\E i \in 1..Len(completed) : completed[i] = "load")
       => /\ DOMAIN load_results = {Users(l) : l \in 1..NumLevels}
          /\ Cardinality(DOMAIN load_results) = NumLevels
    /\ (failing = {} /\ flaky = {})
       => /\ pc # "aborted"
          /\ \A k \in DOMAIN LoadDict :
                /\ LoadDict[k].successful_sessions = k
                /\ LoadDict[k].success_rate = 100

\* the load category has returned after a run in which no step failed
C21_Witness ==
    /\ failing = {}
    /\ flaky = {}
    /\ \E i \in 1..Len(completed) : completed[i] = "load"
    /\ Cardinality(DOMAIN load_results) = NumLevels
    /\ load_results[Users(NumLevels)].successful_sessions = Users(NumLevels)
    /\ load_results[Users(NumLevels)].success_rate = 100

\* C22: generate_recommendations returns a list of recommendations for
\* every state of results and metrics_history, a non-empty results list of
\* failed results included; it never raises, so the report is built.
C22_RecommendationsNeverRaise ==
    /\ pc # "aborted"
    /\ report # NoReport
       => /\ Len(report.recommendations) >= Len(GeneralRecommendations)
          /\ \A i \in 1..Len(GeneralRecommendations) :
                report.recommendations[Len(report.recommendations)
                                       - Len(GeneralRecommendations) + i]
                = GeneralRecommendations[i]

\* the dict of query results as far as it has been built
DbDict == IF pc = "db_loop" THEN results ELSE db_results

\* C23: the rows_returned recorded for a query is the row count of that
\* query's own most recent successful execution, whatever executions of
\* this and of earlier queries failed: when the entry of a query is
\* written, the local `rows` was fetched by that query.
C23_RowsReturnedOfSameQuery ==
    /\ \A i \in 1..NumQueries :
          QueryName(i) \in DOMAIN DbDict
          => DbDict[QueryName(i)].rows_returned = RowCount(i)
    /\ (pc = "db_loop" /\ q <= NumQueries /\ HasEntry(durations))
       => rows = RowCount(q)

\* the second query failed at least once after the first query had fetched
\* its rows, and its entry holds its own row count
C23_Witness ==
    /\ pc = "db_loop"
    /\ q > 2
    /\ failures[<<"db", 2>>] >= 1
    /\ QueryName(1) \in DOMAIN results
    /\ QueryName(2) \in DOMAIN results
    /\ results[QueryName(1)].rows_returned = RowCount(1)
    /\ results[QueryName(2)].rows_returned = RowCount(2)
    /\ RowCount(1) # RowCount(2)

====
